---- MODULE Spec2Model ----
(***************************************************************************)
(* A model of soywiki's two directory utilities:                           *)
(*   select_files.py              the interactive file picker              *)
(*   folder_structure_generator.py  the tree printer                       *)
(* Two specifications share the module: SpecPicker (key assignment, the    *)
(* selection session and the concatenator) and SpecWalk (the ignore-file   *)
(* loaders, the pattern matchers and the two directory walkers).           *)
(***************************************************************************)
EXTENDS Integers, Sequences, FiniteSets, TLC

VARIABLES
    \* ---- picker: main / interactive_file_selection / concatenate ----
    pc,               \* position of the picker's main()
    nfiles,           \* len(files)
    input,            \* keys readchar.readkey() has still to deliver
    consumed,         \* keys read so far, each with the selection before it
    key_mapping,      \* index -> key   (assign_keys)
    paging_required,  \* overflow flag  (assign_keys)
    key_to_index,     \* key -> index   (get_key_mapping)
    selected,         \* the selection set of the running session
    returned,         \* the set interactive_file_selection returned
    pending,          \* indices the concatenator's for loop has still to visit
    output_content,   \* the string handed to the clipboard
    outfile,          \* what was written to concatenated_output.txt
    warnings,         \* the warnings printed by the concatenator
    clipboard,        \* the clipboard after pyperclip.copy
    read_log,         \* the reads the concatenator attempted, in order
    abort_cause,      \* the read that raised out of the concatenator, if any
    \* ---- the directory tree both tools walk, and what they produced ----
    root_exists,      \* whether the directory given on the command line exists
    fs,               \* path below the root -> "dir" | "file"
    ignore_lines,     \* ignore file at the root -> the lines of its text
    unlistable,       \* directories whose listing raises (permission denied)
    ignored_folders,  \* the printer's constructor argument
    picker_files,     \* what list_files returned, once it ran
    printer_runs      \* what each run of generate_folder_structure_txt did

pickerVars == <<pc, nfiles, input, consumed, key_mapping, paging_required,
                key_to_index, selected, returned, pending, output_content,
                outfile, warnings, clipboard, read_log, abort_cause>>

walkVars == <<root_exists, fs, ignore_lines, unlistable, ignored_folders,
              picker_files, printer_runs>>

vars == <<pickerVars, walkVars>>

----------------------------------------------------------------------------
\* Bounds of the model.
MaxFiles == 61
MaxKeys == 3

Range(f) == {f[x] : x \in DOMAIN f}

Min(a, b) == IF a < b THEN a ELSE b

\* select_files.py:211, list("aAbB...tT1234567890!@#$%^&*()")
key_sequence ==
    <<"a", "A", "b", "B", "c", "C", "d", "D", "e", "E",
      "f", "F", "g", "G", "h", "H", "i", "I", "j", "J",
      "k", "K", "l", "L", "m", "M", "n", "N", "o", "O",
      "p", "P", "q", "Q", "r", "R", "s", "S", "t", "T",
      "1", "2", "3", "4", "5", "6", "7", "8", "9", "0",
      "!", "@", "#", "$", "%", "^", "&", "*", "(", ")">>

\* The key that ends the session (select_files.py:179).
CommitKey == "\n"

\* The keys the model's terminal can deliver: the first and the last key of
\* the alphabet, a key outside the alphabet, and the commit key.
KeyInputs == {"a", ")", "z", CommitKey}

RECURSIVE SeqsUpTo(_, _)
SeqsUpTo(S, n) ==
    IF n = 0 THEN {<<>>}
    ELSE LET shorter == SeqsUpTo(S, n - 1)
         IN shorter \cup {Append(s, x) : s \in {t \in shorter : Len(t) = n - 1}, x \in S}

\* assign_keys(num_files, key_sequence): indices are 0-based as in Python.
assign_keys_overflow(num_files, ks) ==
    IF num_files >= Len(ks)
    THEN <<[idx \in 0..(Len(ks) - 1) |-> ks[idx + 1]], TRUE>>
    ELSE <<[idx \in 0..(num_files - 1) |-> ks[idx + 1]], FALSE>>

assign_keys_all(num_files, ks) ==
    <<[idx \in 0..(Len(ks) - 1) |-> ks[idx + 1]], num_files > Len(ks)>>

assign_keys(num_files, ks) ==
    IF num_files > Len(ks)
    THEN <<[idx \in 0..(Len(ks) - 1) |-> ks[idx + 1]], TRUE>>
    ELSE <<[idx \in 0..(num_files - 1) |-> ks[idx + 1]], FALSE>>

\* get_key_mapping(keys): {v: k for k, v in keys.items()}; the dict is filled
\* in ascending index order, so a repeated value keeps its last index.
get_key_mapping(keys) ==
    [v \in Range(keys) |->
        CHOOSE k \in DOMAIN keys :
            /\ keys[k] = v
            /\ \A j \in DOMAIN keys : keys[j] = v => j <= k]

\* The file at an index of the flat list, and what reading it yields.
File(idx) == <<"file", idx>>
Content(path) == <<"content of", path>>
\* f"# {file_path}\n{content}\n"
Block(path, content) == [header |-> path, content |-> content]

TreeFile == <<"tree.txt">>
TreeStates == {"absent", "present", "unreadable"}

\* What open(...) / read() of a selected file can do.
ReadOutcomes == {"ok", "FileNotFoundError", "UnicodeDecodeError", "PermissionError"}

\* The except clauses of select_files.py:157-162, tried in order; every
\* outcome above but "ok" is a subclass of Exception.
except_clause_narrow(exc) ==
    CASE exc = "FileNotFoundError" -> "Could not find file"
      [] exc = "UnicodeDecodeError" -> "Could not decode file"
      [] OTHER -> "propagate"

except_clause(exc) ==
    CASE exc = "FileNotFoundError" -> "Could not find file"
      [] exc = "UnicodeDecodeError" -> "Could not decode file"
      [] exc \in ReadOutcomes \ {"ok"} -> "Could not read file"
      [] OTHER -> "propagate"

----------------------------------------------------------------------------
\* The picker: main() after list_files.

NoMapping == <<>>
NoAbort == <<"none">>

\* No walker is running: the file list is given by its length alone.
IdleWalkState ==
    /\ root_exists = TRUE
    /\ fs = <<>>
    /\ ignore_lines = <<>>
    /\ unlistable = {}
    /\ ignored_folders = {}
    /\ picker_files = [ran |-> FALSE, files |-> <<>>]
    /\ printer_runs = <<>>

InitPicker ==
    /\ IdleWalkState
    /\ pc = "main"
    /\ nfiles \in 0..MaxFiles
    /\ input \in SeqsUpTo(KeyInputs, MaxKeys)
    /\ consumed = <<>>
    /\ key_mapping = NoMapping
    /\ paging_required = FALSE
    /\ key_to_index = NoMapping
    /\ selected = {}
    /\ returned = {}
    /\ pending = {}
    /\ output_content = <<>>
    /\ outfile = <<>>
    /\ warnings = <<>>
    /\ clipboard = [copied |-> FALSE, text |-> <<>>]
    /\ read_log = <<>>
    /\ abort_cause = NoAbort

\* main, select_files.py:205-208: no file survived the filter.
NoFiles ==
    /\ pc = "main"
    /\ nfiles = 0
    /\ pc' = "exited"
    /\ UNCHANGED <<nfiles, input, consumed, key_mapping, paging_required,
                   key_to_index, selected, returned, pending, output_content,
                   outfile, warnings, clipboard, read_log, abort_cause,
                   walkVars>>

\* main, select_files.py:210-214.
AssignKeys ==
    /\ pc = "main"
    /\ nfiles > 0
    /\ LET r == assign_keys(nfiles, key_sequence)
       IN /\ key_mapping' = r[1]
          /\ paging_required' = r[2]
    /\ pc' = "assigned"
    /\ UNCHANGED <<nfiles, input, consumed, key_to_index, selected, returned,
                   pending, output_content, outfile, warnings, clipboard,
                   read_log, abort_cause,
                   walkVars>>

\* interactive_file_selection, select_files.py:173-174.
StartSession ==
    /\ pc = "assigned"
    /\ selected' = {}
    /\ key_to_index' = get_key_mapping(key_mapping)
    /\ pc' = "Browsing"
    /\ UNCHANGED <<nfiles, input, consumed, key_mapping, paging_required,
                   returned, pending, output_content, outfile, warnings,
                   clipboard, read_log, abort_cause,
                   walkVars>>

\* One iteration of the while loop, select_files.py:176-187, on the key read.
toggle_keep(sel, idx) == sel \cup {idx}

toggle(sel, idx) == IF idx \in sel THEN sel \ {idx} ELSE sel \cup {idx}

is_commit_never(key) == FALSE

is_commit(key) == key = CommitKey

on_key(sel, k2i, key) ==
    IF key \in DOMAIN k2i THEN toggle(sel, k2i[key]) ELSE sel

ReadKey ==
    /\ pc = "Browsing"
    /\ input # <<>>
    /\ LET key == Head(input)
       IN /\ input' = Tail(input)
          /\ IF is_commit(key)
             THEN /\ pc' = "Committed"
                  /\ returned' = selected
                  /\ UNCHANGED selected
             ELSE /\ selected' = on_key(selected, key_to_index, key)
                  /\ UNCHANGED <<pc, returned>>
          /\ consumed' = Append(consumed, [key |-> key, before |-> selected,
                                           after |-> selected', state |-> pc'])
    /\ UNCHANGED <<nfiles, key_mapping, paging_required, key_to_index, pending,
                   output_content, outfile, warnings, clipboard, read_log,
                   abort_cause,
                   walkVars>>

\* concatenate_selected_files, select_files.py:135-147: the output file is
\* opened and tree.txt, when it exists, is read outside any try block.
ConcatOpen ==
    /\ pc = "Committed"
    /\ \E t \in TreeStates :
        CASE t = "present" ->
                /\ output_content' = <<Block(TreeFile, Content(TreeFile))>>
                /\ outfile' = <<Block(TreeFile, Content(TreeFile))>>
                /\ pc' = "concat"
                /\ UNCHANGED <<warnings, abort_cause>>
          [] t = "absent" ->
                /\ output_content' = <<>>
                /\ outfile' = <<>>
                /\ warnings' = Append(warnings, [file |-> TreeFile, what |-> "does not exist"])
                /\ pc' = "concat"
                /\ UNCHANGED abort_cause
          [] OTHER ->
                /\ output_content' = <<>>
                /\ outfile' = <<>>
                /\ pc' = "aborted"
                /\ abort_cause' = TreeFile
                /\ UNCHANGED warnings
    /\ pending' = returned
    /\ UNCHANGED <<nfiles, input, consumed, key_mapping, paging_required,
                   key_to_index, selected, returned, clipboard, read_log,
                   walkVars>>

\* One iteration of the for loop, select_files.py:150-162. A Python set is
\* iterated in no specified order.
ConcatFile ==
    /\ pc = "concat"
    /\ \E idx \in pending, r \in ReadOutcomes :
        /\ pending' = pending \ {idx}
        /\ read_log' = Append(read_log, [idx |-> idx, outcome |-> r])
        /\ IF r = "ok"
           THEN /\ output_content' = Append(output_content, Block(File(idx), Content(File(idx))))
                /\ outfile' = Append(outfile, Block(File(idx), Content(File(idx))))
                /\ UNCHANGED <<pc, warnings, abort_cause>>
           ELSE IF except_clause(r) = "propagate"
           THEN /\ pc' = "aborted"
                /\ abort_cause' = File(idx)
                /\ UNCHANGED <<output_content, outfile, warnings>>
           ELSE /\ warnings' = Append(warnings, [file |-> File(idx), what |-> except_clause(r)])
                /\ UNCHANGED <<pc, output_content, outfile, abort_cause>>
    /\ UNCHANGED <<nfiles, input, consumed, key_mapping, paging_required,
                   key_to_index, selected, returned, clipboard,
                   walkVars>>

\* select_files.py:164-169: the clipboard copy, which may fail.
ConcatCopy ==
    /\ pc = "concat"
    /\ pending = {}
    /\ \E ok \in BOOLEAN :
        clipboard' = IF ok THEN [copied |-> TRUE, text |-> output_content]
                           ELSE [copied |-> FALSE, text |-> <<>>]
    /\ pc' = "done"
    /\ UNCHANGED <<nfiles, input, consumed, key_mapping, paging_required,
                   key_to_index, selected, returned, pending, output_content,
                   outfile, warnings, read_log, abort_cause,
                   walkVars>>

NextPicker ==
    \/ NoFiles
    \/ AssignKeys
    \/ StartSession
    \/ ReadKey
    \/ ConcatOpen
    \/ ConcatFile
    \/ ConcatCopy

SpecPicker == InitPicker /\ [][NextPicker]_vars

\* One thread of control runs main(): each step that can run, does.
SpecPickerFair == SpecPicker /\ WF_vars(NextPicker)

----------------------------------------------------------------------------
\* The directory tree, names and patterns. A name or a pattern is the
\* sequence of its characters; a path is the sequence of the names below the
\* root (os.path.join / os.path.relpath / os.path.basename act on it as on
\* the string).

MaxEntries == 2

GitIgnore == <<".", "g", "i", "t", "i", "g", "n", "o", "r", "e">>
SelectIgnore == <<".", "s", "e", "l", "e", "c", "t", "i", "g", "n", "o", "r", "e">>
TreeIgnore == <<".", "t", "r", "e", "e", "i", "g", "n", "o", "r", "e">>

\* select_files.py:201-203, relative to the root, in the order they are read.
PickerIgnoreFiles == <<GitIgnore, SelectIgnore>>
IgnoreNames == {GitIgnore, SelectIgnore, TreeIgnore}

\* folder_structure_generator.py:8-16
DEFAULT_IGNORE_PATTERNS ==
    << <<"_", "_", "p", "y", "c", "a", "c", "h", "e", "_", "_">>,
       <<".", "g", "i", "t">>,
       <<"v", "e", "n", "v">>,
       <<"t", "e", "s", "t", "s">>,
       <<"a", "l", "e", "m", "b", "i", "c">>,
       <<"*", ".", "p", "y", "c">>,
       <<"*", ".", "l", "o", "g">> >>

\* The names the model's tree is built from, and the texts its ignore files
\* are written with: one holds a directory-exact pattern, the other a comment,
\* a blank line and a glob with blanks around it.
DirNames == {<<"a", "b">>, <<"b">>}
FileNames == DirNames \cup {TreeIgnore}
IgnoreTexts ==
    { << <<"b", "/", "\n">> >>,
      << <<" ", "#", "b", "\n">>, <<"\n">>, <<"a", "*", " ", "\n">> >> }
\* os.path.basename(current_directory)
RootName == <<"a", "b">>

\* The code points of the characters names are made of (Python compares
\* strings by code point).
Ord ==
    ("." :> 46) @@ ("a" :> 97) @@ ("b" :> 98) @@ ("c" :> 99) @@ ("e" :> 101)
    @@ ("g" :> 103) @@ ("i" :> 105) @@ ("l" :> 108) @@ ("n" :> 110)
    @@ ("o" :> 111) @@ ("r" :> 114) @@ ("s" :> 115) @@ ("t" :> 116)

\* Python's < on str.
RECURSIVE LexLess(_, _)
LexLess(x, y) ==
    IF x = <<>> THEN y # <<>>
    ELSE IF y = <<>> THEN FALSE
    ELSE IF Head(x) = Head(y) THEN LexLess(Tail(x), Tail(y))
    ELSE Ord[Head(x)] < Ord[Head(y)]

\* Some enumeration of a set.
RECURSIVE SetToSeq(_)
SetToSeq(S) ==
    IF S = {} THEN <<>>
    ELSE LET x == CHOOSE y \in S : TRUE IN <<x>> \o SetToSeq(S \ {x})

RECURSIVE Ascending(_)
Ascending(S) ==
    IF S = {} THEN <<>>
    ELSE LET m == CHOOSE x \in S : \A y \in S \ {x} : LexLess(x, y)
         IN <<m>> \o Ascending(S \ {m})

Reverse(s) == [i \in 1..Len(s) |-> s[Len(s) + 1 - i]]

\* sorted(...)
sorted_unsorted(s) == s

sorted(s) == SortSeq(s, LexLess)

Whitespace == {" ", "\t", "\n"}

\* str.strip()
RECURSIVE lstrip(_)
lstrip(s) ==
    IF s # <<>> /\ Head(s) \in Whitespace THEN lstrip(Tail(s)) ELSE s

strip(s) == Reverse(lstrip(Reverse(lstrip(s))))

\* pattern.rstrip('/')
RECURSIVE rstrip_slash(_)
rstrip_slash(s) ==
    IF s # <<>> /\ s[Len(s)] = "/" THEN rstrip_slash(SubSeq(s, 1, Len(s) - 1)) ELSE s

endswith_slash(s) == s # <<>> /\ s[Len(s)] = "/"

startswith_hash(s) == s # <<>> /\ Head(s) = "#"

\* fnmatch.fnmatch(name, pat) on POSIX (normcase is the identity): '*' matches
\* any run of characters, '?' any one character, every other character
\* itself. The model's patterns hold no '[' class.
RECURSIVE fnmatch(_, _)
fnmatch(name, pat) ==
    IF pat = <<>> THEN name = <<>>
    ELSE IF Head(pat) = "*"
         THEN \/ fnmatch(name, Tail(pat))
              \/ (name # <<>> /\ fnmatch(Tail(name), pat))
    ELSE IF Head(pat) = "?"
         THEN name # <<>> /\ fnmatch(Tail(name), Tail(pat))
    ELSE name # <<>> /\ Head(name) = Head(pat) /\ fnmatch(Tail(name), Tail(pat))

\* The tree: os.path.exists, os.path.isdir, the names in a directory.
Exists(fsys, path) == path \in DOMAIN fsys
IsDir(fsys, path) == path = <<>> \/ (path \in DOMAIN fsys /\ fsys[path] = "dir")
Dirs(fsys) == {p \in DOMAIN fsys : fsys[p] = "dir"}
Files(fsys) == {p \in DOMAIN fsys : fsys[p] = "file"}
ChildNames(fsys, dir_path) ==
    {p[Len(p)] : p \in {q \in DOMAIN fsys :
        Len(q) = Len(dir_path) + 1 /\ SubSeq(q, 1, Len(dir_path)) = dir_path}}

\* os.listdir / os.scandir return the names in no specified order: ascending
\* or descending here, at the caller's choice.
listdir(fsys, dir_path, rev) ==
    IF rev THEN Reverse(Ascending(ChildNames(fsys, dir_path)))
    ELSE Ascending(ChildNames(fsys, dir_path))

----------------------------------------------------------------------------
\* The picker's walker, select_files.py:14-57.

\* The patterns one ignore file contributes (select_files.py:19-23).
RECURSIVE picker_file_patterns(_)
picker_file_patterns(lines) ==
    IF lines = <<>> THEN <<>>
    ELSE LET line == strip(Head(lines))
         IN (IF line # <<>> /\ ~startswith_hash(line) THEN <<line>> ELSE <<>>)
            \o picker_file_patterns(Tail(lines))

RECURSIVE load_ignore_patterns(_, _, _)
load_ignore_patterns(fsys, texts, ignore_files) ==
    IF ignore_files = <<>> THEN <<>>
    ELSE (IF Exists(fsys, <<Head(ignore_files)>>)
          THEN picker_file_patterns(texts[Head(ignore_files)])
          ELSE <<>>)
         \o load_ignore_patterns(fsys, texts, Tail(ignore_files))

\* is_ignored(path, patterns, root_dir): path is relative to the root.
RECURSIVE is_ignored_first_part(_, _)
is_ignored_first_part(path, patterns) ==
    IF patterns = <<>> THEN FALSE
    ELSE LET pattern == Head(patterns)
         IN IF endswith_slash(pattern)
            THEN IF \E i \in 1..Len(path) : path[i] = rstrip_slash(pattern)
                 THEN TRUE
                 ELSE is_ignored_first_part(path, Tail(patterns))
            ELSE IF fnmatch(path[1], pattern)
                 THEN TRUE
                 ELSE is_ignored_first_part(path, Tail(patterns))

RECURSIVE is_ignored(_, _)
is_ignored(path, patterns) ==
    IF patterns = <<>> THEN FALSE
    ELSE LET pattern == Head(patterns)
         IN IF endswith_slash(pattern)
            THEN IF \E i \in 1..Len(path) : path[i] = rstrip_slash(pattern)
                 THEN TRUE
                 ELSE is_ignored(path, Tail(patterns))
            ELSE IF fnmatch(path[Len(path)], pattern)
                 THEN TRUE
                 ELSE is_ignored(path, Tail(patterns))

\* os.walk(root_dir), top-down, errors of scandir ignored (onerror=None),
\* with the loop body of list_files applied to each directory.
RECURSIVE walk(_, _, _, _, _)
RECURSIVE walk_dirs(_, _, _, _, _, _)
walk(fsys, denied, dirpath, patterns, rev) ==
    IF dirpath \in denied THEN <<>>
    ELSE LET names == listdir(fsys, dirpath, rev)
             IsDirName(n) == IsDir(fsys, Append(dirpath, n))
             IsFileName(n) == ~IsDir(fsys, Append(dirpath, n))
             KeepDir(d) == ~is_ignored(Append(dirpath, d), patterns)
             KeepFile(f) == ~is_ignored(Append(dirpath, f), patterns)
             dirnames == SelectSeq(SelectSeq(names, IsDirName), KeepDir)
             filenames == SelectSeq(SelectSeq(names, IsFileName), KeepFile)
         IN [i \in 1..Len(filenames) |-> Append(dirpath, filenames[i])]
            \o walk_dirs(fsys, denied, dirpath, patterns, rev, dirnames)

walk_dirs(fsys, denied, dirpath, patterns, rev, dirnames) ==
    IF dirnames = <<>> THEN <<>>
    ELSE walk(fsys, denied, Append(dirpath, Head(dirnames)), patterns, rev)
         \o walk_dirs(fsys, denied, dirpath, patterns, rev, Tail(dirnames))

\* list_files(root_dir, ignore_files); a missing root yields nothing.
list_files(exists, fsys, texts, denied, rev) ==
    IF ~exists THEN <<>>
    ELSE walk(fsys, denied, <<>>, load_ignore_patterns(fsys, texts, PickerIgnoreFiles), rev)

----------------------------------------------------------------------------
\* The printer, folder_structure_generator.py:18-79.

\* list(self.ignored_folders): a set is enumerated in no specified order;
\* the defaults followed by the extra patterns, or the reverse of that.
ignored_folders_list(extra, rev) ==
    LET base == DEFAULT_IGNORE_PATTERNS \o SetToSeq(extra \ Range(DEFAULT_IGNORE_PATTERNS))
    IN IF rev THEN Reverse(base) ELSE base

\* The lines of .treeignore that become patterns
\* (folder_structure_generator.py:29): the '#' test reads the unstripped line.
RECURSIVE printer_file_patterns(_)
printer_file_patterns(lines) ==
    IF lines = <<>> THEN <<>>
    ELSE (IF strip(Head(lines)) # <<>> /\ ~startswith_hash(Head(lines))
          THEN <<strip(Head(lines))>> ELSE <<>>)
         \o printer_file_patterns(Tail(lines))

printer_load_ignore_patterns(fsys, texts, extra, rev) ==
    ignored_folders_list(extra, rev)
    \o (IF Exists(fsys, <<TreeIgnore>>) THEN printer_file_patterns(texts[TreeIgnore])
        ELSE <<>>)

\* matches_ignore_pattern(entry)
RECURSIVE matches_ignore_pattern_glob_only(_, _)
matches_ignore_pattern_glob_only(entry, patterns) ==
    IF patterns = <<>> THEN FALSE
    ELSE IF fnmatch(entry, Head(patterns)) THEN TRUE
    ELSE matches_ignore_pattern_glob_only(entry, Tail(patterns))

RECURSIVE matches_ignore_pattern(_, _)
matches_ignore_pattern(entry, patterns) ==
    IF patterns = <<>> THEN FALSE
    ELSE LET pattern == Head(patterns)
         IN IF endswith_slash(pattern)
            THEN IF rstrip_slash(pattern) = entry
                 THEN TRUE
                 ELSE matches_ignore_pattern(entry, Tail(patterns))
            ELSE IF fnmatch(entry, pattern)
                 THEN TRUE
                 ELSE matches_ignore_pattern(entry, Tail(patterns))

\* The glyphs of the tree text: "├── ", "└── ", "│   " and four spaces.
Tee == "|-- "
Elbow == "+-- "
Bar == "|   "
Blank == "    "

\* One element of tree_lines; path is not part of the text, it records which
\* entry the line was printed for.
TreeLine(prefix, connector, entry, slash, path) ==
    [prefix |-> prefix, connector |-> connector, entry |-> entry,
     slash |-> slash, path |-> path]

\* f"{prefix}{connector}{entry}" and f"{prefix}{connector}{entry}/"
LineText(l) ==
    l.prefix \o l.connector \o l.entry \o (IF l.slash THEN <<"/">> ELSE <<>>)

\* "\n".join(tree_lines) + "\n"
RECURSIVE join_lines(_)
join_lines(lines) ==
    IF lines = <<>> THEN <<>>
    ELSE LineText(Head(lines)) \o <<"\n">> \o join_lines(Tail(lines))

\* recurse(dir_path, prefix): the lines it appends, or the exception that
\* os.listdir raised out of it.
RECURSIVE recurse(_, _, _, _, _, _)
RECURSIVE recurse_entries(_, _, _, _, _, _, _, _)
recurse(fsys, denied, dir_path, prefix, patterns, rev) ==
    IF dir_path \in denied THEN [raised |-> "PermissionError", lines |-> <<>>]
    ELSE LET NotIgnoreFile(e) == e # TreeIgnore
             NotMatched(e) == ~matches_ignore_pattern(e, patterns)
             entries == SelectSeq(SelectSeq(sorted(listdir(fsys, dir_path, rev)),
                                            NotIgnoreFile), NotMatched)
         IN recurse_entries(fsys, denied, dir_path, prefix, patterns, rev, entries, 1)

recurse_entries(fsys, denied, dir_path, prefix, patterns, rev, entries, i) ==
    IF i > Len(entries) THEN [raised |-> "none", lines |-> <<>>]
    ELSE LET entry == entries[i]
             path == Append(dir_path, entry)
             connector == IF i < Len(entries) THEN Tee ELSE Elbow
         IN IF IsDir(fsys, path)
            THEN LET new_prefix == Append(prefix, IF i < Len(entries) THEN Bar ELSE Blank)
                     sub == recurse(fsys, denied, path, new_prefix, patterns, rev)
                     rest == recurse_entries(fsys, denied, dir_path, prefix, patterns,
                                             rev, entries, i + 1)
                 IN IF sub.raised # "none" THEN sub
                    ELSE IF rest.raised # "none" THEN rest
                    ELSE [raised |-> "none",
                          lines |-> <<TreeLine(prefix, <<connector>>, entry, TRUE, path)>>
                                    \o sub.lines \o rest.lines]
            ELSE LET rest == recurse_entries(fsys, denied, dir_path, prefix, patterns,
                                             rev, entries, i + 1)
                 IN IF rest.raised # "none" THEN rest
                    ELSE [raised |-> "none",
                          lines |-> <<TreeLine(prefix, <<connector>>, entry, FALSE, path)>>
                                    \o rest.lines]

\* generate_folder_structure_txt(current_directory, output_path): what it
\* raised, the lines it built and the text it returned and wrote.
generate_folder_structure_txt(exists, fsys, texts, denied, extra, prev, rev) ==
    IF ~exists
    THEN [raised |-> "FileNotFoundError", tree_lines |-> <<>>, tree_str |-> <<>>]
    ELSE LET patterns == printer_load_ignore_patterns(fsys, texts, extra, prev)
             first == TreeLine(<<>>, <<>>, RootName, TRUE, <<>>)
             r == recurse(fsys, denied, <<>>, <<>>, patterns, rev)
         IN IF r.raised # "none"
            THEN [raised |-> r.raised, tree_lines |-> <<>>, tree_str |-> <<>>]
            ELSE [raised |-> "none", tree_lines |-> <<first>> \o r.lines,
                  tree_str |-> join_lines(<<first>> \o r.lines)]

----------------------------------------------------------------------------
\* The walkers at work on a tree that is set up first.

NotListed == [ran |-> FALSE, files |-> <<>>]

\* The picker's main() is not running.
IdlePicker ==
    /\ pc = "idle"
    /\ nfiles = 0
    /\ input = <<>>
    /\ consumed = <<>>
    /\ key_mapping = NoMapping
    /\ paging_required = FALSE
    /\ key_to_index = NoMapping
    /\ selected = {}
    /\ returned = {}
    /\ pending = {}
    /\ output_content = <<>>
    /\ outfile = <<>>
    /\ warnings = <<>>
    /\ clipboard = [copied |-> FALSE, text |-> <<>>]
    /\ read_log = <<>>
    /\ abort_cause = NoAbort

InitWalk ==
    /\ root_exists \in BOOLEAN
    /\ fs = <<>>
    /\ ignore_lines = [n \in IgnoreNames |-> <<>>]
    /\ unlistable = {}
    /\ ignored_folders = {}
    /\ picker_files = NotListed
    /\ printer_runs = <<>>
    /\ IdlePicker

SettingUp == root_exists /\ ~picker_files.ran /\ printer_runs = <<>>

\* Entries other than the ignore files at the root.
Counted(fsys) == {p \in DOMAIN fsys : ~(Len(p) = 1 /\ p[1] \in IgnoreNames)}

AddEntry(fsys, path, kind) ==
    [q \in DOMAIN fsys \cup {path} |-> IF q = path THEN kind ELSE fsys[q]]

Mkdir ==
    /\ SettingUp
    /\ Cardinality(Counted(fs)) < MaxEntries
    /\ \E parent \in {<<>>} \cup Dirs(fs), name \in DirNames :
        /\ ~Exists(fs, Append(parent, name))
        /\ fs' = AddEntry(fs, Append(parent, name), "dir")
    /\ UNCHANGED <<root_exists, ignore_lines, unlistable, ignored_folders,
                   picker_files, printer_runs, pickerVars>>

Touch ==
    /\ SettingUp
    /\ Cardinality(Counted(fs)) < MaxEntries
    /\ \E parent \in {<<>>} \cup Dirs(fs), name \in FileNames :
        /\ ~Exists(fs, Append(parent, name))
        /\ fs' = AddEntry(fs, Append(parent, name), "file")
    /\ UNCHANGED <<root_exists, ignore_lines, unlistable, ignored_folders,
                   picker_files, printer_runs, pickerVars>>

\* An ignore file is written at the root.
WriteIgnore ==
    /\ SettingUp
    /\ \E name \in IgnoreNames, text \in IgnoreTexts :
        /\ ~Exists(fs, <<name>>)
        /\ fs' = AddEntry(fs, <<name>>, "file")
        /\ ignore_lines' = [ignore_lines EXCEPT ![name] = text]
    /\ UNCHANGED <<root_exists, unlistable, ignored_folders, picker_files,
                   printer_runs, pickerVars>>

\* A directory below the root loses its read permission.
Chmod ==
    /\ SettingUp
    /\ unlistable = {}
    /\ \E d \in Dirs(fs) : unlistable' = {d}
    /\ UNCHANGED <<root_exists, fs, ignore_lines, ignored_folders, picker_files,
                   printer_runs, pickerVars>>

\* The picker's main up to select_files.py:205.
ListFiles ==
    /\ ~picker_files.ran
    /\ \E rev \in BOOLEAN :
        picker_files' = [ran |-> TRUE,
                         files |-> list_files(root_exists, fs, ignore_lines, unlistable, rev)]
    /\ UNCHANGED <<root_exists, fs, ignore_lines, unlistable, ignored_folders,
                   printer_runs, pickerVars>>

\* One run of the printer; the model runs it twice on the same tree.
GenerateTree ==
    /\ Len(printer_runs) < 2
    /\ \E prev \in BOOLEAN, rev \in BOOLEAN :
        printer_runs' = Append(printer_runs,
            [out |-> generate_folder_structure_txt(root_exists, fs, ignore_lines,
                                                   unlistable, ignored_folders, prev, rev)])
    /\ UNCHANGED <<root_exists, fs, ignore_lines, unlistable, ignored_folders,
                   picker_files, pickerVars>>

NextWalk ==
    \/ Mkdir
    \/ Touch
    \/ WriteIgnore
    \/ Chmod
    \/ ListFiles
    \/ GenerateTree

SpecWalk == InitWalk /\ [][NextWalk]_vars

----------------------------------------------------------------------------
\* Properties of the picker.

AfterCommit == {"Committed", "concat", "done", "aborted"}

\* The keys that have an index: the values of the index -> key mapping.
AssignedKeys == Range(key_mapping)

\* How often a key was pressed before the commit.
Presses(key) ==
    Cardinality({i \in 1..Len(consumed) : consumed[i].key = key})

\* The indices whose key was pressed an odd number of times.
OddlyPressed ==
    {i \in 0..(nfiles - 1) :
        i < Len(key_sequence) /\ Presses(key_sequence[i + 1]) % 2 = 1}

\* C2: pressing the same assigned key twice in a row returns the selection
\* set to what it was before the two presses, and a key that is neither the
\* commit key nor an assigned key leaves the set unchanged and the session in
\* Browsing.
C2_ToggleSelfInverse ==
    /\ \A i \in 1..(Len(consumed) - 1) :
        (consumed[i].key = consumed[i + 1].key /\ consumed[i].key \in AssignedKeys)
            => consumed[i + 1].after = consumed[i].before
    /\ \A i \in 1..Len(consumed) :
        (consumed[i].key # CommitKey /\ consumed[i].key \notin AssignedKeys)
            => /\ consumed[i].after = consumed[i].before
               /\ consumed[i].state = "Browsing"

\* An assigned key was pressed twice in a row on a non-empty selection, and
\* an unrecognized key was pressed.
C2_Witness ==
    /\ \E i \in 1..(Len(consumed) - 1) :
        /\ consumed[i].key = consumed[i + 1].key
        /\ consumed[i].key \in AssignedKeys
        /\ consumed[i].after # consumed[i].before
    /\ \E i \in 1..Len(consumed) : consumed[i].key = "z"

\* C3 (safety part): the session starts in Browsing with an empty selection,
\* leaves Browsing only on the commit key, reads no key after the first
\* commit, and returns to the concatenator exactly the result of the toggles
\* that preceded the commit.
C3_SessionSafety ==
    /\ (pc = "Browsing" /\ consumed = <<>>) => selected = {}
    /\ pc \in AfterCommit <=>
          (consumed # <<>> /\ consumed[Len(consumed)].key = CommitKey)
    /\ \A i \in 1..Len(consumed) :
          /\ consumed[i].key = CommitKey => i = Len(consumed)
          /\ consumed[i].key = CommitKey <=> consumed[i].state # "Browsing"
          /\ consumed[i].key = CommitKey => consumed[i].after = consumed[i].before
    /\ pc \in AfterCommit =>
          /\ returned = OddlyPressed
          /\ selected = returned
    /\ pc \in {"concat", "done"} =>
          pending \cup {read_log[j].idx : j \in 1..Len(read_log)} = returned

\* C3: the safety part always holds, and when the input holds a commit key
\* the session terminates.
C3_Session ==
    /\ []C3_SessionSafety
    /\ (nfiles > 0 /\ CommitKey \in Range(input)) ~> (pc \in AfterCommit)

\* A session that toggled, ignored a key, committed a non-empty selection and
\* left a key unread behind the commit.
C3_Witness ==
    /\ pc = "done"
    /\ returned # {}
    /\ Len(consumed) >= 2
    /\ input # <<>>

\* C4: assign_keys maps exactly the indices 0 .. min(n, |A|)-1, index i to
\* A[i], with the overflow flag true exactly when n > |A|; get_key_mapping is
\* the exact inverse of that mapping.
C4_KeyAssignment ==
    /\ pc \notin {"main", "exited"} =>
          /\ DOMAIN key_mapping = 0..(Min(nfiles, Len(key_sequence)) - 1)
          /\ \A i \in DOMAIN key_mapping : key_mapping[i] = key_sequence[i + 1]
          /\ paging_required = (nfiles > Len(key_sequence))
          /\ Cardinality(Range(key_mapping)) = Cardinality(DOMAIN key_mapping)
    /\ pc \notin {"main", "exited", "assigned"} =>
          /\ DOMAIN key_to_index = Range(key_mapping)
          /\ \A i \in DOMAIN key_mapping : key_to_index[key_mapping[i]] = i

\* One file more than the alphabet has keys: the overflow case.
C4_Witness ==
    /\ pc = "Browsing"
    /\ nfiles = Len(key_sequence) + 1
    /\ paging_required
    /\ Cardinality(DOMAIN key_to_index) = Len(key_sequence)

\* What the concatenator read successfully, and what it failed to read.
ReadOk == {read_log[j].idx : j \in {k \in 1..Len(read_log) : read_log[k].outcome = "ok"}}
ReadFailed == {read_log[j].idx : j \in {k \in 1..Len(read_log) : read_log[k].outcome # "ok"}}
FileBlocks(text) == {j \in 1..Len(text) : text[j].header # TreeFile}

\* C5: no selected file aborts the concatenation; the artifact holds one
\* block for each selected file that could be read and none for the others, a
\* warning names each selected file that could not be read, and at the end
\* every selected file has been visited.
C5_ConcatTolerant ==
    /\ abort_cause \in {NoAbort, TreeFile}
    /\ pc = "aborted" => abort_cause = TreeFile
    /\ pc \in {"concat", "done"} =>
          /\ {outfile[j].header : j \in FileBlocks(outfile)} = {File(i) : i \in ReadOk}
          /\ Cardinality(FileBlocks(outfile)) = Cardinality(ReadOk)
          /\ \A j \in FileBlocks(outfile) : outfile[j].content = Content(outfile[j].header)
          /\ output_content = outfile
          /\ {warnings[j].file : j \in 1..Len(warnings)} \ {TreeFile}
                = {File(i) : i \in ReadFailed}
          /\ ReadOk \cap ReadFailed = {}
    /\ pc = "done" => ReadOk \cup ReadFailed = returned

\* A finished concatenation in which a read failed and a later one succeeded.
C5_Witness ==
    /\ pc = "done"
    /\ \E i, j \in 1..Len(read_log) :
          /\ i < j
          /\ read_log[i].outcome = "PermissionError"
          /\ read_log[j].outcome = "ok"

\* C10: every selected index has an assigned key and lies in
\* 0 .. min(file count, alphabet length) - 1, so the concatenator only reads
\* valid indices of the file list.
C10_SelectionInRange ==
    /\ \A idx \in selected \cup returned \cup pending :
          /\ idx \in DOMAIN key_mapping
          /\ 0 <= idx
          /\ idx < Min(nfiles, Len(key_sequence))
    /\ \A j \in 1..Len(read_log) : read_log[j].idx \in 0..(nfiles - 1)

\* More files than keys, and the file with the last key is selected.
C10_Witness ==
    /\ nfiles > Len(key_sequence)
    /\ pc = "Browsing"
    /\ (Len(key_sequence) - 1) \in selected

----------------------------------------------------------------------------
\* Properties of the walkers.

\* The patterns each tool loaded for the tree as it stands.
PickerPatterns == Range(load_ignore_patterns(fs, ignore_lines, PickerIgnoreFiles))
PrinterPatterns ==
    Range(printer_load_ignore_patterns(fs, ignore_lines, ignored_folders, FALSE))

\* The names the directory-exact patterns of a set name, and its globs.
DirExact(patterns) == {rstrip_slash(p) : p \in {q \in patterns : endswith_slash(q)}}
Globs(patterns) == {p \in patterns : ~endswith_slash(p)}

\* q is d or lies beneath d.
Under(d, q) == Len(q) >= Len(d) /\ SubSeq(q, 1, Len(d)) = d
Basename(q) == q[Len(q)]
Parent(q) == SubSeq(q, 1, Len(q) - 1)

\* What the picker listed, and what a run of the printer printed below the
\* line of the root.
ListedPaths == Range(picker_files.files)
PrintedPaths(run) ==
    {run.out.tree_lines[i].path : i \in 2..Len(run.out.tree_lines)}
Runs == Range(printer_runs)
FinishedRuns == {run \in Runs : run.out.raised = "none"}

\* C1: a directory whose name equals a directory-exact pattern, and every
\* file and directory beneath it, is absent from the picker's file list and
\* from the printer's tree.
C1_DirExactPruned ==
    \A d \in Dirs(fs) :
        /\ (picker_files.ran /\ Basename(d) \in DirExact(PickerPatterns))
              => \A q \in ListedPaths : ~Under(d, q)
        /\ Basename(d) \in DirExact(PrinterPatterns)
              => \A run \in Runs : \A q \in PrintedPaths(run) : ~Under(d, q)

\* Both tools ran on a tree in which a directory with a file beneath it is
\* named by a directory-exact pattern of each tool, and listed or printed
\* something else.
C1_Witness ==
    /\ picker_files.ran
    /\ ListedPaths # {}
    /\ \E run \in FinishedRuns : PrintedPaths(run) # {}
    /\ \E d \in Dirs(fs) :
          /\ Basename(d) \in DirExact(PickerPatterns)
          /\ Basename(d) \in DirExact(PrinterPatterns)
          /\ \E f \in Files(fs) : Under(d, f)

\* A reason other than a glob for a file to be missing from a result: a
\* directory-exact pattern names a segment of its path, or a directory above
\* it cannot be listed.
DirExactHit(f, patterns) == \E i \in 1..Len(f) : f[i] \in DirExact(patterns)
AboveUnlistable(f) == \E d \in unlistable : Under(d, f) /\ d # f
GlobHitsBasename(f, patterns) == \E p \in Globs(patterns) : fnmatch(Basename(f), p)
GlobHitsSegment(f, patterns) ==
    \E p \in Globs(patterns) : \E i \in 1..Len(f) : fnmatch(f[i], p)

\* C6 as stated: a file that only a glob can have excluded has a base name
\* that a glob pattern matches.
C6_GlobBasenameOnly_Original ==
    \A f \in Files(fs) :
        /\ (/\ picker_files.ran
            /\ f \notin ListedPaths
            /\ ~DirExactHit(f, PickerPatterns)
            /\ ~AboveUnlistable(f))
              => GlobHitsBasename(f, PickerPatterns)
        /\ \A run \in FinishedRuns :
            (/\ f \notin PrintedPaths(run)
             /\ ~DirExactHit(f, PrinterPatterns)
             /\ \A i \in 1..Len(f) : f[i] # TreeIgnore)
              => GlobHitsBasename(f, PrinterPatterns)

\* C6 as amended: every glob is matched against the base name of the entry
\* under test, file or directory; a file that no other rule excludes is
\* excluded exactly when a glob matches its own base name or the base name of
\* a directory above it, which is pruned with all beneath it.
C6_GlobBasenameOrPrunedAncestor ==
    \A f \in Files(fs) :
        /\ (/\ picker_files.ran
            /\ ~DirExactHit(f, PickerPatterns)
            /\ ~AboveUnlistable(f))
              => (f \notin ListedPaths <=> GlobHitsSegment(f, PickerPatterns))
        /\ \A run \in FinishedRuns :
            (/\ ~DirExactHit(f, PrinterPatterns)
             /\ \A i \in 1..Len(f) : f[i] # TreeIgnore)
              => (f \notin PrintedPaths(run) <=> GlobHitsSegment(f, PrinterPatterns))

\* Both tools ran with a glob loaded that matches the name of a directory
\* but not the name of the file in it, and with a file that no glob touches.
C6_Witness ==
    /\ picker_files.ran
    /\ FinishedRuns # {}
    /\ \E f \in Files(fs) :
          /\ Len(f) = 2
          /\ ~GlobHitsBasename(f, PickerPatterns)
          /\ ~GlobHitsBasename(f, PrinterPatterns)
          /\ GlobHitsSegment(f, PickerPatterns)
          /\ GlobHitsSegment(f, PrinterPatterns)
          /\ f \notin ListedPaths
    /\ \E g \in ListedPaths : \E run \in FinishedRuns : g \in PrintedPaths(run)

\* C7: no result of a walk holds an ignore file: the printer's tree has no
\* entry named .treeignore, the picker's list has neither the .gitignore nor
\* the .selectignore of the root.
C7_NoIgnoreFileInResults ==
    /\ \A run \in Runs : \A q \in PrintedPaths(run) : Basename(q) # TreeIgnore
    /\ picker_files.ran =>
          /\ <<GitIgnore>> \notin ListedPaths
          /\ <<SelectIgnore>> \notin ListedPaths

\* The entries a walk has to emit: no segment of the path is excluded by
\* the tool's patterns, and no directory on the path is unlistable.
Unmatched(q, patterns) ==
    ~DirExactHit(q, patterns)
    /\ ~\E p \in Globs(patterns) : \E i \in 1..Len(q) : fnmatch(q[i], p)
Reachable(q) == \A d \in unlistable : ~Under(d, q)

\* C8: a missing root is the only failure that aborts a walk: the printer
\* raises before any output when the root is missing, and with the root
\* present both walkers finish and emit every entry that is neither excluded
\* nor inside a directory that cannot be listed.
C8_OnlyMissingRootAborts ==
    /\ \A run \in Runs :
          /\ ~root_exists =>
                /\ run.out.raised = "FileNotFoundError"
                /\ run.out.tree_str = <<>>
          /\ root_exists =>
                /\ run.out.raised = "none"
                /\ \A q \in DOMAIN fs :
                      (/\ Unmatched(q, PrinterPatterns)
                       /\ Reachable(q)
                       /\ \A i \in 1..Len(q) : q[i] # TreeIgnore)
                          => q \in PrintedPaths(run)
    /\ (picker_files.ran /\ root_exists) =>
          \A f \in Files(fs) :
              (Unmatched(f, PickerPatterns) /\ Reachable(f)) => f \in ListedPaths

\* Lines of one run that were printed for entries of the same directory.
SiblingsSorted(run) ==
    \A i, j \in 2..Len(run.out.tree_lines) :
        (/\ i < j
         /\ Parent(run.out.tree_lines[i].path) = Parent(run.out.tree_lines[j].path))
            => LexLess(run.out.tree_lines[i].entry, run.out.tree_lines[j].entry)

\* C9: two runs of the printer on the same tree, ignore files and extra
\* patterns return the same text, whatever order the pattern set and the
\* directory listings were enumerated in, and siblings are printed in
\* ascending order of their names.
C9_PrinterDeterministic ==
    /\ Len(printer_runs) = 2 => printer_runs[1].out = printer_runs[2].out
    /\ \A run \in Runs : SiblingsSorted(run)

\* Two finished runs over a root with a .treeignore that holds a pattern and
\* with two printed entries in one directory.
C9_Witness ==
    /\ Len(printer_runs) = 2
    /\ printer_runs[1].out.raised = "none"
    /\ printer_runs[2].out.raised = "none"
    /\ Exists(fs, <<TreeIgnore>>)
    /\ ignore_lines[TreeIgnore] # <<>>
    /\ \E i, j \in 2..Len(printer_runs[2].out.tree_lines) :
          /\ i < j
          /\ Parent(printer_runs[2].out.tree_lines[i].path)
                = Parent(printer_runs[2].out.tree_lines[j].path)

====
